---------------------------- MODULE Spec2Model ----------------------------
(***************************************************************************)
(* Model of the client-side agent loop of the meeting recorder agent:      *)
(*   - get_function_and_payload, the regex + ast.literal_eval extractor;   *)
(*   - MeetingAgent.run, the completion / extraction / tool-execution loop.*)
(*                                                                         *)
(* A text is a sequence of lexemes.  A lexeme is either one punctuation    *)
(* character, one white-space character, or a run of characters of the     *)
(* class [A-Za-z0-9_-] (so that long tool names are one lexeme); adjacent  *)
(* name lexemes concatenate, as adjacent characters do.                    *)
(***************************************************************************)
EXTENDS Integers, Sequences, FiniteSets, TLC

\* Bounds of the model.
MaxLen == 4
MaxPad == 2
MaxIter == 2

\* Python's None, as a tool name and as a payload.
None == "<None>"
NonePayload == <<>>

SENTINEL == "xpfinish-agent-execution-finished"
CALENDAR == "CalendarEventManagementGetCalendarEventsById"

\* Lexemes of the character class [A-Za-z0-9_\-] of the pattern.
NameChars == {"a", "1", SENTINEL, CALENDAR}
\* Those of them that are decimal digits.
Digits == {"1"}
\* White space of the literal grammar; "\n" is the one character that the
\* pattern's `.` does not match.
Whitespace == {" ", "\n"}
Punct == {"[", "]", "{", "}", ":"}
Alphabet == {"[", "]", "{", "}", ":", "a", "1", " ", "\n"}

Max(S) == CHOOSE x \in S : \A y \in S : x >= y

RECURSIVE Join(_)
Join(s) == IF s = <<>> THEN "" ELSE Head(s) \o Join(Tail(s))

(***************************************************************************)
(* re.search(r"\[([A-Za-z0-9_\-]+)({.*})\]", content)                      *)
(***************************************************************************)
NoMatch == [found |-> FALSE, g1 |-> <<>>, g2 |-> <<>>]

\* The greedy [A-Za-z0-9_\-]+ from position i: the first position after the run.
RECURSIVE NameRun(_, _)
NameRun(text, i) ==
    IF i <= Len(text) /\ text[i] \in NameChars THEN NameRun(text, i + 1) ELSE i

\* The greedy .* from position i: the first position it cannot consume
\* (a line break, or the end of the text).
RECURSIVE DotRun(_, _)
DotRun(text, i) ==
    IF i <= Len(text) /\ text[i] # "\n" THEN DotRun(text, i + 1) ELSE i

\* The ends k of group 2 that the backtracking of .* can reach: text[k] is
\* the closing brace of the pattern and text[k+1] its closing bracket.
GroupEnds(text, j) ==
    {k \in (j + 1)..(DotRun(text, j + 1) - 1) :
        text[k] = "}" /\ k + 1 <= Len(text) /\ text[k + 1] = "]"}

\* The pattern with an optional name, [A-Za-z0-9_\-]*, in place of MatchAt.
MatchAtOptionalName(text, i) ==
    IF i > Len(text) \/ text[i] # "[" THEN NoMatch
    ELSE LET j == NameRun(text, i + 1) IN
         IF j > Len(text) \/ text[j] # "{" THEN NoMatch
         ELSE IF GroupEnds(text, j) = {} THEN NoMatch
         ELSE [found |-> TRUE,
               g1 |-> SubSeq(text, i + 1, j - 1),
               g2 |-> SubSeq(text, j, Max(GroupEnds(text, j)))]

\* The match of the pattern that starts at position i, if there is one.  The
\* name run cannot give characters back (the next pattern character, an
\* opening brace, is no name character); .* gives back as few as it can.
MatchAt(text, i) ==
    IF i > Len(text) \/ text[i] # "[" THEN NoMatch
    ELSE LET j == NameRun(text, i + 1) IN
         IF j = i + 1 \/ j > Len(text) \/ text[j] # "{" THEN NoMatch
         ELSE IF GroupEnds(text, j) = {} THEN NoMatch
         ELSE [found |-> TRUE,
               g1 |-> SubSeq(text, i + 1, j - 1),
               g2 |-> SubSeq(text, j, Max(GroupEnds(text, j)))]

\* re.search: the match at the leftmost position that has one.
re_search(text) ==
    LET SearchFrom[i \in 1..(Len(text) + 1)] ==
          IF i > Len(text) THEN NoMatch
          ELSE IF MatchAt(text, i).found THEN MatchAt(text, i)
          ELSE SearchFrom[i + 1]
    IN  SearchFrom[1]

(***************************************************************************)
(* ast.literal_eval on the literals the lexemes can spell: numbers, and    *)
(* dict, set and list displays of at most one entry.  The parsed value is  *)
(* represented by the sequence of its tokens (white space dropped, digit   *)
(* runs joined).                                                           *)
(***************************************************************************)
\* The tokens of s: TokensFrom[i] are those of its suffix from position i.
Tokenize(s) ==
    LET TokensFrom[i \in 1..(Len(s) + 1)] ==
          IF i > Len(s) THEN <<>>
          ELSE IF s[i] \in Whitespace THEN TokensFrom[i + 1]
          ELSE IF s[i] \in NameChars THEN
              <<[k |-> IF \A n \in i..(NameRun(s, i) - 1) : s[n] \in Digits
                       THEN "num" ELSE "name",
                 s |-> Join(SubSeq(s, i, NameRun(s, i) - 1))]>>
              \o TokensFrom[NameRun(s, i)]
          ELSE IF s[i] \in Punct THEN <<[k |-> "op", s |-> s[i]]>> \o TokensFrom[i + 1]
          ELSE <<[k |-> "bad", s |-> s[i]]>> \o TokensFrom[i + 1]
    IN  TokensFrom[1]

ParseFail == [ok |-> FALSE, next |-> 0, hashable |-> FALSE]
Parsed(n, h) == [ok |-> TRUE, next |-> n, hashable |-> h]
IsOp(t, i, c) == i <= Len(t) /\ t[i].k = "op" /\ t[i].s = c

\* One value starting at token i.  A bare name is no literal (ValueError), a
\* dict key or set element must be hashable (TypeError otherwise).
ParseValue(t, i) ==
    LET ValueAt[n \in 1..(Len(t) + 2)] ==
          IF n > Len(t) THEN ParseFail
          ELSE IF t[n].k = "num" THEN Parsed(n + 1, TRUE)
          ELSE IF IsOp(t, n, "{") THEN
              IF IsOp(t, n + 1, "}") THEN Parsed(n + 2, FALSE)
              ELSE LET a == ValueAt[n + 1] IN
                   IF ~a.ok \/ ~a.hashable THEN ParseFail
                   ELSE IF IsOp(t, a.next, "}") THEN Parsed(a.next + 1, FALSE)
                   ELSE IF IsOp(t, a.next, ":") THEN
                       LET b == ValueAt[a.next + 1] IN
                       IF b.ok /\ IsOp(t, b.next, "}") THEN Parsed(b.next + 1, FALSE)
                       ELSE ParseFail
                   ELSE ParseFail
          ELSE IF IsOp(t, n, "[") THEN
              IF IsOp(t, n + 1, "]") THEN Parsed(n + 2, FALSE)
              ELSE LET a == ValueAt[n + 1] IN
                   IF a.ok /\ IsOp(t, a.next, "]") THEN Parsed(a.next + 1, FALSE)
                   ELSE ParseFail
          ELSE ParseFail
    IN  ValueAt[i]

\* The literal that the tokens t spell, if they spell one.
LiteralOf(t) ==
    IF ParseValue(t, 1).ok /\ ParseValue(t, 1).next = Len(t) + 1
    THEN [ok |-> TRUE, value |-> [n \in 1..Len(t) |-> t[n].s]]
    ELSE [ok |-> FALSE, value |-> NonePayload]

\* (The one-point functions below bind a computed value to a name once.)
literal_eval(s) ==
    LET OfText[text \in {s}] ==
          LET OfTokens[t \in {Tokenize(text)}] == LiteralOf(t)
          IN  OfTokens[Tokenize(text)]
    IN  OfText[s]

(***************************************************************************)
(* get_function_and_payload(model_response), on the reply's content.       *)
(* raised: ast.literal_eval raised and nothing is returned.                *)
(***************************************************************************)
\* The extractor with the parse wrapped in try/except, in place of
\* get_function_and_payload.
get_function_and_payload_swallowing(content) ==
    LET OfMatch[match \in {re_search(content)}] ==
          LET OfPayload[payload \in {literal_eval(match.g2)}] ==
                IF match.found /\ payload.ok
                THEN [raised |-> FALSE, tool_name |-> Join(match.g1),
                      payload |-> payload.value]
                ELSE [raised |-> FALSE, tool_name |-> None, payload |-> NonePayload]
          IN  OfPayload[literal_eval(match.g2)]
    IN  OfMatch[re_search(content)]

get_function_and_payload(content) ==
    LET OfMatch[match \in {re_search(content)}] ==
          IF match.found
          THEN LET OfPayload[payload \in {literal_eval(match.g2)}] ==
                     IF payload.ok
                     THEN [raised |-> FALSE, tool_name |-> Join(match.g1),
                           payload |-> payload.value]
                     ELSE [raised |-> TRUE, tool_name |-> None, payload |-> NonePayload]
               IN  OfPayload[literal_eval(match.g2)]
          ELSE [raised |-> FALSE, tool_name |-> None, payload |-> NonePayload]
    IN  OfMatch[re_search(content)]


\* Python truthiness of an optional string.
Truthy(x) == x # None /\ x # ""
\* str(x) of an optional string.
Str(x) == IF x = None THEN "None" ELSE x

(***************************************************************************)
(* Tool provisioning: the state of the setup notebook, whose cells read    *)
(* the agent's interfaces and tools, process the manifest and attach the   *)
(* operations that are not attached yet.                                   *)
(***************************************************************************)
VARIABLES
    cell,              \* the notebook cell (or statement) that runs next
    pass,              \* history: how many times the cells were run
    tools,             \* config.get("tools", []): the manifest
    remote_interfaces, \* remote: what retrieve_agentic_interfaces returns
    agent_tools,       \* remote: the names of the tools attached to the agent
    interfaces,        \* dict: lower-cased name -> interface, in insertion order
    existing_tools,    \* dict keys: the tool names found on the agent
    to_add,
    missing,
    tool_index,        \* position of the loop over tools
    node_index,        \* position of the loop over to_add
    setup_calls,       \* history: the remote calls of this pass, in order
    outcomes           \* history: to_add, missing and the calls of earlier passes

\* The cell that gets or creates the agent.
VARIABLES
    agent_id,          \* os.environ.get("XPANDER_AGENT_ID"), then agent.id
    agent,             \* the agent that agents.get or agents.create returned
    env_file,          \* the text of the file .env
    env_content,       \* f.read()
    agent_calls,       \* history: the calls of agents.get and agents.create
    printed            \* history: what the cell printed

agentVars == <<agent_id, agent, env_file, env_content, agent_calls, printed>>

setupVars == <<cell, pass, tools, remote_interfaces, agent_tools, interfaces,
               existing_tools, to_add, missing, tool_index, node_index,
               setup_calls, outcomes, agentVars>>

\* The cell that gets or creates the agent is not run.
AgentIdle ==
    /\ agent_id = None
    /\ agent = None
    /\ env_file = <<>>
    /\ env_content = <<>>
    /\ agent_calls = <<>>
    /\ printed = <<>>

\* The setup notebook is not run.
SetupIdle ==
    /\ cell = "idle"
    /\ pass = 1
    /\ tools = <<>>
    /\ remote_interfaces = <<>>
    /\ agent_tools = {SENTINEL}
    /\ interfaces = <<>>
    /\ existing_tools = {}
    /\ to_add = <<>>
    /\ missing = <<>>
    /\ tool_index = 1
    /\ node_index = 1
    /\ setup_calls = <<>>
    /\ outcomes = <<>>
    /\ AgentIdle

(***************************************************************************)
(* MeetingAgent.run                                                        *)
(***************************************************************************)
VARIABLES
    pc,               \* position in run
    prompt,           \* argument of run
    thread_id,        \* argument of run, reassigned from the retrieved result
    is_finished,      \* RUNNING (FALSE) or FINISHED (TRUE)
    messages,         \* self.agent.messages
    execution_tokens, \* the Tokens accumulator of the run
    response,         \* the chat completion of the current iteration
    tool_name,        \* locals of the current iteration
    payload,
    tool_calls,
    responses,        \* what run_tools returned in the current iteration
    result,           \* what retrieve_execution_result returned
    returned,         \* the value run returned
    calls,            \* history: the remote calls of the run, in order
    observed,         \* history: the function names of the executed responses
    overflow,         \* history: the run went past MaxIter iterations
    first,            \* history: the previous run, once run is called again
    suspended,        \* the run of a second MeetingAgent that is not at its turn
    running           \* which of the two MeetingAgent objects takes the steps

runVars == <<pc, prompt, thread_id, is_finished, messages, execution_tokens,
             response, tool_name, payload, tool_calls, responses, result,
             returned, calls, observed, overflow, first, suspended, running>>

vars == <<runVars, setupVars>>

\* The inputs and the answers of the remote services.
\* run(prompt, thread_id): no prompt and no thread, an empty prompt in a prior
\* thread, a prompt in a new thread.
Inputs == {<<None, None>>, <<"", "b1047931">>, <<"Hi! What can you do?", None>>}
DefaultTask == "Please check the status of all recorded meetings."
Now == "2025-04-23 08:00:00"
\* f"call_{random.randint(100000, 999999)}"
CallIds == {"call_100000"}
StatusCodes == {200, 500}
Usages == {[completion_tokens |-> 1, prompt_tokens |-> 1, total_tokens |-> 2],
           [completion_tokens |-> 1, prompt_tokens |-> 2, total_tokens |-> 3]}
Results == {[result |-> "ok", memory_thread_id |-> "b1047931", status |-> "COMPLETED"],
            [result |-> "sorry", memory_thread_id |-> "c2158042", status |-> "FAILED"]}

\* Replies of the model: a final answer, a calendar call, prose without a
\* call, a call with a malformed mapping, and two calls on two lines.
FinishCall == <<"[", SENTINEL, "{", "1", ":", "{", "1", ":", "1", "}", "}", "]">>
CalendarCall == <<"[", CALENDAR, "{", "1", ":", "1", "}", "]">>
Prose == <<"a", " ", "a">>
MalformedCall == <<"[", "a", "{", "a", " ", "a", "}", "]">>
Replies == {FinishCall, CalendarCall, Prose, MalformedCall,
            CalendarCall \o <<"\n">> \o FinishCall}

NoResponse == [content |-> <<>>, usage |-> [completion_tokens |-> 0, prompt_tokens |-> 0, total_tokens |-> 0]]
NoResult == [result |-> None, memory_thread_id |-> None, status |-> None]

\* History: loop entries are recorded for the first MaxIter iterations.
\* No previous run.
NoRun == [pc |-> None, calls |-> <<>>, returned |-> <<>>]
\* No second MeetingAgent.
NotStarted == [pc |-> "idle"]
Logged(e) == IF overflow THEN calls ELSE Append(calls, e)
Count(op) == Cardinality({n \in 1..Len(calls) : calls[n].op = op})

Init ==
    /\ pc = "start"
    /\ \E input \in Inputs : prompt = input[1] /\ thread_id = input[2]
    /\ is_finished = FALSE
    /\ messages = <<>>
    /\ execution_tokens = NoResponse.usage
    /\ response = NoResponse
    /\ tool_name = None
    /\ payload = NonePayload
    /\ tool_calls = <<>>
    /\ responses = <<>>
    /\ result = NoResult
    /\ returned = <<>>
    /\ calls = <<>>
    /\ observed = {}
    /\ overflow = FALSE
    /\ first = NoRun
    /\ suspended = NotStarted
    /\ running = 1
    /\ SetupIdle

\* An exception leaves run: nothing after the raising statement is executed.
Raise ==
    /\ pc' = "raised"
    /\ UNCHANGED <<prompt, thread_id, is_finished, messages, execution_tokens,
                   response, tool_name, payload, tool_calls, responses, result,
                   returned, calls, observed, overflow>>

\* The first step with add_task(input=task) alone, in place of AddTask.
AddTaskNewThread ==
    /\ pc = "start"
    /\ \/ LET task == IF Truthy(prompt) THEN prompt ELSE DefaultTask
          IN  /\ is_finished' = FALSE
              /\ messages' = <<[role |-> "user", content |-> <<task>>]>>
              /\ calls' = Logged([op |-> "add_task",
                                  arg |-> [input |-> task, thread_id |-> None],
                                  res |-> None])
              /\ pc' = "add_messages"
              /\ UNCHANGED <<prompt, thread_id, execution_tokens, response,
                             tool_name, payload, tool_calls, responses, result,
                             returned, observed, overflow>>
       \/ Raise
    /\ UNCHANGED <<first, suspended, running, setupVars>>

\* is_finished = False; task = prompt or ...; self.agent.add_task(...)
AddTask ==
    /\ pc = "start"
    /\ \/ LET task == IF Truthy(prompt) THEN prompt ELSE DefaultTask
              thread == IF Truthy(thread_id) THEN thread_id ELSE None
          IN  /\ is_finished' = FALSE
              /\ messages' = <<[role |-> "user", content |-> <<task>>]>>
              /\ calls' = Logged([op |-> "add_task",
                                  arg |-> [input |-> task, thread_id |-> thread],
                                  res |-> None])
              /\ pc' = "add_messages"
              /\ UNCHANGED <<prompt, thread_id, execution_tokens, response,
                             tool_name, payload, tool_calls, responses, result,
                             returned, observed, overflow>>
       \/ Raise
    /\ UNCHANGED <<first, suspended, running, setupVars>>

\* self.agent.add_messages([the time now]); execution_tokens = Tokens(0, 0, 0)
AddTimestamp ==
    /\ pc = "add_messages"
    /\ \/ /\ messages' = Append(messages,
                [role |-> "assistant", content |-> <<"the time now is : ", Now>>])
          /\ execution_tokens' = [completion_tokens |-> 0, prompt_tokens |-> 0, total_tokens |-> 0]
          /\ pc' = "while"
          /\ UNCHANGED <<prompt, thread_id, is_finished, response, tool_name,
                         payload, tool_calls, responses, result, returned,
                         calls, observed, overflow>>
       \/ Raise
    /\ UNCHANGED <<first, suspended, running, setupVars>>

\* The loop with an iteration ceiling of one, in place of While.
WhileCapped ==
    /\ pc = "while"
    /\ pc' = IF ~is_finished /\ Count("completion") < 1 THEN "completion" ELSE "retrieve"
    /\ overflow' = overflow
    /\ UNCHANGED <<prompt, thread_id, is_finished, messages, execution_tokens,
                   response, tool_name, payload, tool_calls, responses, result,
                   returned, calls, observed>>
    /\ UNCHANGED <<first, suspended, running, setupVars>>

\* A loop that also stops once the run has used three tokens, in place of
\* While.
WhileWithinBudget ==
    /\ pc = "while"
    /\ pc' = IF ~is_finished /\ execution_tokens.total_tokens < 3
             THEN "completion" ELSE "retrieve"
    /\ overflow' = (overflow \/ (pc' = "completion" /\ Count("completion") >= MaxIter))
    /\ UNCHANGED <<prompt, thread_id, is_finished, messages, execution_tokens,
                   response, tool_name, payload, tool_calls, responses, result,
                   returned, calls, observed>>
    /\ UNCHANGED <<first, suspended, running, setupVars>>

\* while not is_finished:
While ==
    /\ pc = "while"
    /\ pc' = IF ~is_finished THEN "completion" ELSE "retrieve"
    /\ overflow' = (overflow \/ (~is_finished /\ Count("completion") >= MaxIter))
    /\ UNCHANGED <<prompt, thread_id, is_finished, messages, execution_tokens,
                   response, tool_name, payload, tool_calls, responses, result,
                   returned, calls, observed>>
    /\ UNCHANGED <<first, suspended, running, setupVars>>

\* The completion step with a history that keeps only the latest reply after
\* the task and the timestamp, in place of Completion.
CompletionKeepingLastReply ==
    /\ pc = "completion"
    /\ \/ \E content \in Replies, usage \in Usages :
            /\ response' = [content |-> content, usage |-> usage]
            /\ calls' = Logged([op |-> "completion", arg |-> messages, res |-> content])
            /\ execution_tokens' =
                 IF overflow THEN execution_tokens
                 ELSE [completion_tokens |-> execution_tokens.completion_tokens + usage.completion_tokens,
                       prompt_tokens |-> execution_tokens.prompt_tokens + usage.prompt_tokens,
                       total_tokens |-> execution_tokens.total_tokens + usage.total_tokens]
            /\ messages' =
                 IF overflow THEN messages
                 ELSE Append(SubSeq(messages, 1, 2), [role |-> "assistant", content |-> content])
            /\ pc' = "extract"
            /\ UNCHANGED <<prompt, thread_id, is_finished, tool_name, payload,
                           tool_calls, responses, result, returned, observed,
                           overflow>>
       \/ Raise
    /\ UNCHANGED <<first, suspended, running, setupVars>>

\* response = chat.completions.create(messages=self.agent.messages); the token
\* counters; report_llm_usage; self.agent.add_messages(response)
Completion ==
    /\ pc = "completion"
    /\ \/ \E content \in Replies, usage \in Usages :
            /\ response' = [content |-> content, usage |-> usage]
            /\ calls' = Logged([op |-> "completion", arg |-> messages, res |-> content])
            /\ execution_tokens' =
                 IF overflow THEN execution_tokens
                 ELSE [completion_tokens |-> execution_tokens.completion_tokens + usage.completion_tokens,
                       prompt_tokens |-> execution_tokens.prompt_tokens + usage.prompt_tokens,
                       total_tokens |-> execution_tokens.total_tokens + usage.total_tokens]
            /\ messages' =
                 IF overflow THEN messages
                 ELSE Append(messages, [role |-> "assistant", content |-> content])
            /\ pc' = "extract"
            /\ UNCHANGED <<prompt, thread_id, is_finished, tool_name, payload,
                           tool_calls, responses, result, returned, observed,
                           overflow>>
       \/ Raise
    /\ UNCHANGED <<first, suspended, running, setupVars>>

\* ToolCall(name=tool_name, type=ToolCallType.XPANDER, payload=payload, tool_call_id=...)
ToolCall(name, pl, id) ==
    [name |-> name, type |-> "xpander", payload |-> pl, tool_call_id |-> id]

\* The extraction step with a tool_calls list that is created once and
\* appended to in every iteration, in place of Extract.
ExtractAccumulating ==
    /\ pc = "extract"
    /\ \E r \in {get_function_and_payload(response.content)} :
       IF r.raised THEN Raise
       ELSE \E id \in CallIds :
              /\ tool_name' = r.tool_name
              /\ payload' = r.payload
              /\ tool_calls' = Append(tool_calls, ToolCall(r.tool_name, r.payload, id))
              /\ pc' = "run_tools"
              /\ UNCHANGED <<prompt, thread_id, is_finished, messages,
                             execution_tokens, response, responses, result,
                             returned, calls, observed, overflow>>
    /\ UNCHANGED <<first, suspended, running, setupVars>>

\* The extraction step that builds a ToolCall only when a name was extracted,
\* in place of Extract.
ExtractOnlyIfNamed ==
    /\ pc = "extract"
    /\ \E r \in {get_function_and_payload(response.content)} :
       IF r.raised THEN Raise
       ELSE \E id \in CallIds :
              /\ tool_name' = r.tool_name
              /\ payload' = r.payload
              /\ tool_calls' = IF r.tool_name = None THEN <<>>
                               ELSE <<ToolCall(r.tool_name, r.payload, id)>>
              /\ pc' = "run_tools"
              /\ UNCHANGED <<prompt, thread_id, is_finished, messages,
                             execution_tokens, response, responses, result,
                             returned, calls, observed, overflow>>
    /\ UNCHANGED <<first, suspended, running, setupVars>>

\* The extraction step with a try around the extractor that goes on without
\* a call, in place of Extract.
ExtractSkippingMalformed ==
    /\ pc = "extract"
    /\ \E r \in {get_function_and_payload(response.content)} :
       \E id \in CallIds :
          /\ tool_name' = IF r.raised THEN None ELSE r.tool_name
          /\ payload' = IF r.raised THEN NonePayload ELSE r.payload
          /\ tool_calls' = <<ToolCall(tool_name', payload', id)>>
          /\ pc' = "run_tools"
          /\ UNCHANGED <<prompt, thread_id, is_finished, messages,
                         execution_tokens, response, responses, result,
                         returned, calls, observed, overflow>>
    /\ UNCHANGED <<first, suspended, running, setupVars>>

\* tool_name, payload = get_function_and_payload(response.model_dump());
\* tool_calls = [ToolCall(...)]
Extract ==
    /\ pc = "extract"
    /\ \E r \in {get_function_and_payload(response.content)} :
       IF r.raised THEN Raise
       ELSE \E id \in CallIds :
              /\ tool_name' = r.tool_name
              /\ payload' = r.payload
              /\ tool_calls' = <<ToolCall(r.tool_name, r.payload, id)>>
              /\ pc' = "run_tools"
              /\ UNCHANGED <<prompt, thread_id, is_finished, messages,
                             execution_tokens, response, responses, result,
                             returned, calls, observed, overflow>>
    /\ UNCHANGED <<first, suspended, running, setupVars>>

\* What the remote agent may answer to run_tools: one response per call, named
\* after the call or after another tool.  A response carries the HTTP status
\* of the execution and the is_success flag of its payload.
RemoteNames(call) == {call.name, SENTINEL, CALENDAR}
RunToolsResults(tcs) ==
    {rs \in [1..Len(tcs) -> [function_name : {None, "a", "1", SENTINEL, CALENDAR},
                             status_code : StatusCodes,
                             is_success : BOOLEAN]] :
        \A n \in 1..Len(tcs) : rs[n].function_name \in RemoteNames(tcs[n])}

\* A sentinel test on the HTTP status, in place of IsFinished.
IsFinishedByStatus(r) == r.status_code = 200

\* A sentinel test on the tool name extracted from the reply, in place of
\* IsFinished.
IsFinishedByExtractedName(r) == Str(tool_name) = SENTINEL

\* A sentinel test that also asks for a successful result, in place of
\* IsFinished.
IsFinishedIfSuccessful(r) ==
    Str(r.function_name) = SENTINEL /\ r.is_success /\ r.status_code = 200

\* if str(response.function_name) == "xpfinish-agent-execution-finished"
IsFinished(r) == Str(r.function_name) = SENTINEL

\* The tool execution inside try/except, with responses = [] on an
\* exception, in place of RunTools.
RunToolsSwallowing ==
    /\ pc = "run_tools"
    /\ \/ IF tool_calls # <<>>
          THEN \E rs \in RunToolsResults(tool_calls) :
                 /\ responses' = rs
                 /\ is_finished' = (is_finished \/ \E n \in 1..Len(rs) : IsFinished(rs[n]))
                 /\ calls' = Logged([op |-> "run_tools",
                                     arg |-> [n \in 1..Len(tool_calls) |->
                                                <<tool_calls[n].name, tool_calls[n].payload>>],
                                     res |-> [n \in 1..Len(rs) |-> Str(rs[n].function_name)]])
                 /\ observed' = observed \cup {Str(rs[n].function_name) : n \in 1..Len(rs)}
                 /\ pc' = "break"
                 /\ UNCHANGED <<prompt, thread_id, messages, execution_tokens,
                                response, tool_name, payload, tool_calls, result,
                                returned, overflow>>
          ELSE /\ pc' = "break"
               /\ UNCHANGED <<prompt, thread_id, is_finished, messages,
                              execution_tokens, response, tool_name, payload,
                              tool_calls, responses, result, returned, calls,
                              observed, overflow>>
       \/ /\ tool_calls # <<>>
          /\ responses' = <<>>
          /\ pc' = "break"
          /\ UNCHANGED <<prompt, thread_id, is_finished, messages,
                         execution_tokens, response, tool_name, payload,
                         tool_calls, result, returned, calls, observed,
                         overflow>>
    /\ UNCHANGED <<first, suspended, running, setupVars>>

\* if tool_calls: responses = self.agent.run_tools(tool_calls); for response
\* in responses: if ...: is_finished = True
RunTools ==
    /\ pc = "run_tools"
    /\ \/ IF tool_calls # <<>>
          THEN \E rs \in RunToolsResults(tool_calls) :
                 /\ responses' = rs
                 /\ is_finished' = (is_finished \/ \E n \in 1..Len(rs) : IsFinished(rs[n]))
                 /\ calls' = Logged([op |-> "run_tools",
                                     arg |-> [n \in 1..Len(tool_calls) |->
                                                <<tool_calls[n].name, tool_calls[n].payload>>],
                                     res |-> [n \in 1..Len(rs) |-> Str(rs[n].function_name)]])
                 /\ observed' = observed \cup {Str(rs[n].function_name) : n \in 1..Len(rs)}
                 /\ pc' = "break"
                 /\ UNCHANGED <<prompt, thread_id, messages, execution_tokens,
                                response, tool_name, payload, tool_calls, result,
                                returned, overflow>>
          ELSE /\ pc' = "break"
               /\ UNCHANGED <<prompt, thread_id, is_finished, messages,
                              execution_tokens, response, tool_name, payload,
                              tool_calls, responses, result, returned, calls,
                              observed, overflow>>
       \/ tool_calls # <<>> /\ Raise
    /\ UNCHANGED <<first, suspended, running, setupVars>>

\* The end of an iteration that goes back to the timestamp message, in place
\* of Break.
BreakToTimestamp ==
    /\ pc = "break"
    /\ pc' = IF is_finished THEN "retrieve" ELSE "add_messages"
    /\ UNCHANGED <<prompt, thread_id, is_finished, messages, execution_tokens,
                   response, tool_name, payload, tool_calls, responses, result,
                   returned, calls, observed, overflow>>
    /\ UNCHANGED <<first, suspended, running, setupVars>>

\* if is_finished: break
Break ==
    /\ pc = "break"
    /\ pc' = IF is_finished THEN "retrieve" ELSE "while"
    /\ UNCHANGED <<prompt, thread_id, is_finished, messages, execution_tokens,
                   response, tool_name, payload, tool_calls, responses, result,
                   returned, calls, observed, overflow>>
    /\ UNCHANGED <<first, suspended, running, setupVars>>

\* The retrieval without thread_id = result.memory_thread_id, in place of
\* Retrieve.
RetrieveKeepingThread ==
    /\ pc = "retrieve"
    /\ \/ \E res \in Results :
            /\ result' = res
            /\ calls' = Append(calls, [op |-> "retrieve_execution_result", arg |-> None, res |-> res])
            /\ pc' = "report"
            /\ UNCHANGED <<prompt, thread_id, is_finished, messages, execution_tokens,
                           response, tool_name, payload, tool_calls, responses,
                           returned, observed, overflow>>
       \/ Raise
    /\ UNCHANGED <<first, suspended, running, setupVars>>

\* result = self.agent.retrieve_execution_result(); thread_id = result.memory_thread_id
Retrieve ==
    /\ pc = "retrieve"
    /\ \/ \E res \in Results :
            /\ result' = res
            /\ thread_id' = res.memory_thread_id
            /\ calls' = Append(calls, [op |-> "retrieve_execution_result", arg |-> None, res |-> res])
            /\ pc' = "report"
            /\ UNCHANGED <<prompt, is_finished, messages, execution_tokens,
                           response, tool_name, payload, tool_calls, responses,
                           returned, observed, overflow>>
       \/ Raise
    /\ UNCHANGED <<first, suspended, running, setupVars>>

\* self.agent.report_execution_metrics(llm_tokens=execution_tokens, ...)
ReportMetrics ==
    /\ pc = "report"
    /\ \/ /\ calls' = Append(calls, [op |-> "report_execution_metrics",
                                     arg |-> execution_tokens, res |-> None])
          /\ pc' = "return"
          /\ UNCHANGED <<prompt, thread_id, is_finished, messages,
                         execution_tokens, response, tool_name, payload,
                         tool_calls, responses, result, returned, observed,
                         overflow>>
       \/ Raise
    /\ UNCHANGED <<first, suspended, running, setupVars>>

\* return result_text, thread_id
Return ==
    /\ pc = "return"
    /\ returned' = <<result.result, thread_id>>
    /\ pc' = "returned"
    /\ UNCHANGED <<prompt, thread_id, is_finished, messages, execution_tokens,
                   response, tool_name, payload, tool_calls, responses, result,
                   calls, observed, overflow>>
    /\ UNCHANGED <<first, suspended, running, setupVars>>

Next ==
    \/ AddTask
    \/ AddTimestamp
    \/ While
    \/ Completion
    \/ Extract
    \/ RunTools
    \/ Break
    \/ Retrieve
    \/ ReportMetrics
    \/ Return

Spec == Init /\ [][Next]_vars

\* The steps of run are taken one after the other for as long as one is left:
\* the loop is synchronous and every remote call returns or raises.  The
\* progress of the loop is checked for run() called without arguments.
FairInit == Init /\ prompt = None /\ thread_id = None
FairSpec == FairInit /\ [][Next]_vars /\ WF_vars(Next)

(***************************************************************************)
(* run called a second time, and given the answers of the first run.       *)
(***************************************************************************)
\* The second run was given, so far, what the first run was given: the same
\* answer to the same call at the same position, and an exception where the
\* first run met one and nowhere else.
Follows ==
    \/ first = NoRun
    \/ /\ \A n \in 1..Len(calls) :
             (n <= Len(first.calls) /\ calls[n].op = first.calls[n].op)
                => calls[n].res = first.calls[n].res
       /\ pc = "raised" => (first.pc = "raised" /\ Len(calls) = Len(first.calls))
       /\ first.pc = "raised" => Len(calls) <= Len(first.calls)

\* A second call of a run that keeps is_finished on the MeetingAgent
\* instance, in place of Again.
AgainKeepingFinished ==
    /\ pc \in {"returned", "raised"}
    /\ first = NoRun
    /\ ~overflow
    /\ first' = [pc |-> pc, calls |-> calls, returned |-> returned]
    /\ pc' = "start"
    /\ thread_id' = None
    /\ execution_tokens' = NoResponse.usage
    /\ response' = NoResponse
    /\ tool_name' = None
    /\ payload' = NonePayload
    /\ tool_calls' = <<>>
    /\ responses' = <<>>
    /\ result' = NoResult
    /\ returned' = <<>>
    /\ calls' = <<>>
    /\ observed' = {}
    /\ UNCHANGED <<prompt, messages, overflow, is_finished, suspended, running>>
    /\ UNCHANGED setupVars

\* meeting_agent.run() once more, after a run that returned or raised: the
\* locals are new, the agent and its message history are the same.
Again ==
    /\ pc \in {"returned", "raised"}
    /\ first = NoRun
    /\ ~overflow
    /\ first' = [pc |-> pc, calls |-> calls, returned |-> returned]
    /\ pc' = "start"
    /\ thread_id' = None
    /\ is_finished' = FALSE
    /\ execution_tokens' = NoResponse.usage
    /\ response' = NoResponse
    /\ tool_name' = None
    /\ payload' = NonePayload
    /\ tool_calls' = <<>>
    /\ responses' = <<>>
    /\ result' = NoResult
    /\ returned' = <<>>
    /\ calls' = <<>>
    /\ observed' = {}
    /\ UNCHANGED <<prompt, messages, overflow, suspended, running>>
    /\ UNCHANGED setupVars

\* A step of the first run, or a step of the second that follows the first.
Step == Next /\ Follows'

TwinNext ==
    \/ Step
    \/ Again

TwinSpec == FairInit /\ [][TwinNext]_vars

(***************************************************************************)
(* Two MeetingAgent objects for one agent id, each with a run of its own,  *)
(* whose steps interleave.  The variables of run hold the state of the run *)
(* that takes the steps; the state of the other run is kept in suspended.  *)
(***************************************************************************)
\* The locals of the run that takes the steps and the messages of its
\* self.agent, as one value.
Current ==
    [pc |-> pc,
     prompt |-> prompt,
     thread_id |-> thread_id,
     is_finished |-> is_finished,
     messages |-> messages,
     execution_tokens |-> execution_tokens,
     response |-> response,
     tool_name |-> tool_name,
     payload |-> payload,
     tool_calls |-> tool_calls,
     responses |-> responses,
     result |-> result,
     returned |-> returned,
     calls |-> calls,
     observed |-> observed,
     overflow |-> overflow]

\* A run that was called with a prompt and has taken no step.
Called(p) ==
    [pc |-> "start", prompt |-> p, thread_id |-> None, is_finished |-> FALSE,
     messages |-> <<>>, execution_tokens |-> NoResponse.usage,
     response |-> NoResponse, tool_name |-> None, payload |-> NonePayload,
     tool_calls |-> <<>>, responses |-> <<>>, result |-> NoResult,
     returned |-> <<>>, calls |-> <<>>, observed |-> {}, overflow |-> FALSE]

\* The answers of the remote services in the interleaved runs: final answers
\* and calendar calls with any usage, successful tool executions, one result;
\* no more than MaxIter iterations.
Answered ==
    /\ ~overflow
    /\ response.content \in {NoResponse.content, FinishCall, CalendarCall}
    /\ \A n \in 1..Len(responses) : responses[n].status_code = 200 /\ responses[n].is_success
    /\ result.status # "FAILED"

\* The two objects with one self.agent between them: the messages stay where
\* they are when the other run takes over, in place of Switch.
SwitchSharingAgent ==
    /\ suspended # NotStarted
    /\ running' = 3 - running
    /\ suspended' = Current
    /\ pc' = suspended.pc
    /\ prompt' = suspended.prompt
    /\ thread_id' = suspended.thread_id
    /\ is_finished' = suspended.is_finished
    /\ execution_tokens' = suspended.execution_tokens
    /\ response' = suspended.response
    /\ tool_name' = suspended.tool_name
    /\ payload' = suspended.payload
    /\ tool_calls' = suspended.tool_calls
    /\ responses' = suspended.responses
    /\ result' = suspended.result
    /\ returned' = suspended.returned
    /\ calls' = suspended.calls
    /\ observed' = suspended.observed
    /\ overflow' = suspended.overflow
    /\ messages' = messages
    /\ UNCHANGED <<first, setupVars>>

\* The other run takes over: self.agent of each MeetingAgent is the object
\* that its own __init__ got from agents.get.
Switch ==
    /\ suspended # NotStarted
    /\ running' = 3 - running
    /\ suspended' = Current
    /\ pc' = suspended.pc
    /\ prompt' = suspended.prompt
    /\ thread_id' = suspended.thread_id
    /\ is_finished' = suspended.is_finished
    /\ messages' = suspended.messages
    /\ execution_tokens' = suspended.execution_tokens
    /\ response' = suspended.response
    /\ tool_name' = suspended.tool_name
    /\ payload' = suspended.payload
    /\ tool_calls' = suspended.tool_calls
    /\ responses' = suspended.responses
    /\ result' = suspended.result
    /\ returned' = suspended.returned
    /\ calls' = suspended.calls
    /\ observed' = suspended.observed
    /\ overflow' = suspended.overflow
    /\ UNCHANGED <<first, setupVars>>

\* A step of the run at its turn.
Turn == Next /\ Answered'

InterleavedInit ==
    /\ pc = "start"
    /\ prompt = None
    /\ thread_id = None
    /\ is_finished = FALSE
    /\ messages = <<>>
    /\ execution_tokens = NoResponse.usage
    /\ response = NoResponse
    /\ tool_name = None
    /\ payload = NonePayload
    /\ tool_calls = <<>>
    /\ responses = <<>>
    /\ result = NoResult
    /\ returned = <<>>
    /\ calls = <<>>
    /\ observed = {}
    /\ overflow = FALSE
    /\ first = NoRun
    /\ suspended = Called("Hi! What can you do?")
    /\ running = 1
    /\ SetupIdle

InterleavedNext ==
    \/ Turn
    \/ Switch

InterleavedSpec == InterleavedInit /\ [][InterleavedNext]_vars

(***************************************************************************)
(* The cells of the setup notebook.                                        *)
(***************************************************************************)
MaxTools == 2
MaxPasses == 2

BOT == "XpanderMeetingManagementCreateRecordingBot"

\* str.lower() on the letters of the interface names.
LowerChar(c) == IF c = "G" THEN "g" ELSE c
Lower(s) == [n \in 1..Len(s) |-> LowerChar(s[n])]
\* sub in s, for strings.
Contains(sub, s) ==
    \E n \in 0..(Len(s) - Len(sub)) : SubSeq(s, n + 1, n + Len(sub)) = sub

\* The interfaces of the organization, and the lists in which the remote
\* service may return them.
Interface1 == [id |-> "i1", name |-> <<"G", "x">>]
Interface2 == [id |-> "i2", name |-> <<"x">>]
Interface3 == [id |-> "i3", name |-> <<"g", "x">>]
InterfaceLists == {<<>>, <<Interface1, Interface2>>, <<Interface2, Interface1>>,
                   <<Interface1, Interface2, Interface3>>}

\* The operations of an interface, as retrieve_agentic_operations may return
\* them; one operation has no id_to_use_on_graph attribute.
CalendarOperation == [id_to_use_on_graph |-> CALENDAR, name |-> "Get Calendar Events by ID"]
BotOperation == [id_to_use_on_graph |-> BOT, name |-> "Create Meeting Recording Bot"]
UnnamedOperation == [id_to_use_on_graph |-> None, name |-> "Draft"]
OperationLists == {<<>>, <<CalendarOperation>>,
                   <<UnnamedOperation, BotOperation, CalendarOperation>>}

\* The entries of the manifest and the manifests of at most MaxTools entries.
ToolConfigs ==
    {[interface |-> <<"G">>, internal_name |-> CALENDAR],
     [interface |-> <<"x">>, internal_name |-> BOT],
     [interface |-> <<>>, internal_name |-> CALENDAR],
     [interface |-> <<"x", "x">>, internal_name |-> BOT],
     [interface |-> <<"x">>, internal_name |-> ""],
     [interface |-> <<"G">>, internal_name |-> BOT]}
Manifests == UNION {[1..m -> ToolConfigs] : m \in 0..MaxTools}

\* interfaces[name] = interface: a new key is appended, the value of a key
\* that is present is replaced in place.
DictSet(d, key, value) ==
    IF \E n \in 1..Len(d) : d[n].key = key
    THEN [n \in 1..Len(d) |-> IF d[n].key = key THEN [key |-> key, value |-> value] ELSE d[n]]
    ELSE Append(d, [key |-> key, value |-> value])

\* for interface in agent.retrieve_agentic_interfaces():
\*     interfaces[getattr(interface, 'name', '').lower()] = interface
InterfacesOf(list) ==
    LET Upto[n \in 0..Len(list)] ==
          IF n = 0 THEN <<>>
          ELSE DictSet(Upto[n - 1], Lower(list[n].name), list[n])
    IN  Upto[Len(list)]

\* interface = None, operation = None
NoInterface == [id |-> None, name |-> <<>>]
NoOperation == [id_to_use_on_graph |-> None, name |-> None]

\* The lookup that takes the interface whose name is the configured string,
\* in place of FindInterface.
FindInterfaceExact(d, interface_name) ==
    IF \E n \in 1..Len(d) : d[n].key = interface_name
    THEN d[CHOOSE n \in 1..Len(d) : d[n].key = interface_name].value
    ELSE NoInterface

\* for name, intf in interfaces.items(): if interface_name in name: ...; break
FindInterface(d, interface_name) ==
    IF \E n \in 1..Len(d) : Contains(interface_name, d[n].key)
    THEN d[CHOOSE n \in 1..Len(d) :
              /\ Contains(interface_name, d[n].key)
              /\ \A m \in 1..(n - 1) : ~Contains(interface_name, d[m].key)].value
    ELSE NoInterface

\* next((op for op in operations if hasattr(op, 'id_to_use_on_graph')
\*       and op.id_to_use_on_graph == internal_name), None)
Matches(op, internal_name) ==
    op.id_to_use_on_graph # None /\ op.id_to_use_on_graph = internal_name

\* The lookup that takes the first operation of the interface, in place of
\* FindOperation.
FindOperationFirst(operations, internal_name) ==
    IF operations = <<>> THEN NoOperation ELSE operations[1]

FindOperation(operations, internal_name) ==
    IF \E n \in 1..Len(operations) : Matches(operations[n], internal_name)
    THEN operations[CHOOSE n \in 1..Len(operations) :
                       /\ Matches(operations[n], internal_name)
                       /\ \A m \in 1..(n - 1) : ~Matches(operations[m], internal_name)]
    ELSE NoOperation

\* The setup notebook before its cells are run.
SetupInit ==
    /\ cell = "interfaces"
    /\ pass = 1
    /\ tools \in Manifests
    /\ remote_interfaces \in InterfaceLists
    /\ agent_tools \in {{SENTINEL}, {SENTINEL, CALENDAR}}
    /\ interfaces = <<>>
    /\ existing_tools = {}
    /\ to_add = <<>>
    /\ missing = <<>>
    /\ tool_index = 1
    /\ node_index = 1
    /\ setup_calls = <<>>
    /\ outcomes = <<>>
    /\ AgentIdle

\* interfaces = {}; for interface in agent.retrieve_agentic_interfaces(): ...
RetrieveInterfaces ==
    /\ cell = "interfaces"
    /\ interfaces' = InterfacesOf(remote_interfaces)
    /\ setup_calls' = Append(setup_calls, [op |-> "retrieve_agentic_interfaces", arg |-> None, ok |-> TRUE])
    /\ cell' = "existing_tools"
    /\ UNCHANGED <<pass, tools, remote_interfaces, agent_tools, existing_tools,
                   to_add, missing, tool_index, node_index, outcomes>>
    /\ UNCHANGED <<runVars, agentVars>>

\* existing_tools = {}; for tool in agent.get_tools(): ... existing_tools[name] = True
GetExistingTools ==
    /\ cell = "existing_tools"
    /\ existing_tools' = {name \in agent_tools : Truthy(name)}
    /\ setup_calls' = Append(setup_calls, [op |-> "get_tools", arg |-> None, ok |-> TRUE])
    /\ cell' = "process"
    /\ UNCHANGED <<pass, tools, remote_interfaces, agent_tools, interfaces,
                   to_add, missing, tool_index, node_index, outcomes>>
    /\ UNCHANGED <<runVars, agentVars>>

\* to_add = []; missing = []; for tool_config in tools:
BeginProcess ==
    /\ cell = "process"
    /\ to_add' = <<>>
    /\ missing' = <<>>
    /\ tool_index' = 1
    /\ cell' = "for"
    /\ UNCHANGED <<pass, tools, remote_interfaces, agent_tools, interfaces,
                   existing_tools, node_index, setup_calls, outcomes>>
    /\ UNCHANGED <<runVars, agentVars>>

\* The test that finds no tool on the agent, in place of AlreadyExists.
AlreadyExistsNever(internal_name) == FALSE

\* if internal_name in existing_tools
AlreadyExists(internal_name) == internal_name \in existing_tools

\* The body of the loop for one manifest entry.
ProcessTool ==
    /\ cell = "for"
    /\ tool_index <= Len(tools)
    /\ tool_index' = tool_index + 1
    /\ LET interface_name == Lower(tools[tool_index].interface)
           internal_name == tools[tool_index].internal_name
           interface == FindInterface(interfaces, interface_name)
       IN  IF ~Truthy(internal_name) \/ AlreadyExists(internal_name)
           THEN UNCHANGED <<to_add, missing, setup_calls>>
           ELSE IF interface = NoInterface
           THEN /\ missing' = Append(missing, internal_name)
                /\ UNCHANGED <<to_add, setup_calls>>
           ELSE \/ \E operations \in OperationLists :
                     /\ setup_calls' = Append(setup_calls,
                            [op |-> "retrieve_agentic_operations", arg |-> interface.id, ok |-> TRUE])
                     /\ IF FindOperation(operations, internal_name) # NoOperation
                        THEN /\ to_add' = Append(to_add, FindOperation(operations, internal_name))
                             /\ UNCHANGED missing
                        ELSE /\ missing' = Append(missing, internal_name)
                             /\ UNCHANGED to_add
                \/ /\ setup_calls' = Append(setup_calls,
                          [op |-> "retrieve_agentic_operations", arg |-> interface.id, ok |-> FALSE])
                   /\ missing' = Append(missing, internal_name)
                   /\ UNCHANGED to_add
    /\ UNCHANGED <<cell, pass, tools, remote_interfaces, agent_tools, interfaces,
                   existing_tools, node_index, outcomes>>
    /\ UNCHANGED <<runVars, agentVars>>

\* The loop over tools is exhausted.
EndProcess ==
    /\ cell = "for"
    /\ tool_index > Len(tools)
    /\ cell' = "add_tools"
    /\ UNCHANGED <<pass, tools, remote_interfaces, agent_tools, interfaces,
                   existing_tools, to_add, missing, tool_index, node_index,
                   setup_calls, outcomes>>
    /\ UNCHANGED <<runVars, agentVars>>

\* if to_add: try: agent.attach_operations(operations=to_add) ... except
AttachOperations ==
    /\ cell = "add_tools"
    /\ IF to_add = <<>>
       THEN /\ cell' = "done"
            /\ UNCHANGED <<agent_tools, node_index, setup_calls>>
       ELSE \/ /\ setup_calls' = Append(setup_calls,
                      [op |-> "attach_operations", arg |-> to_add, ok |-> TRUE])
               /\ agent_tools' = agent_tools \cup
                      {to_add[n].id_to_use_on_graph : n \in 1..Len(to_add)}
               /\ node_index' = 1
               /\ cell' = "add_node"
            \/ /\ setup_calls' = Append(setup_calls,
                      [op |-> "attach_operations", arg |-> to_add, ok |-> FALSE])
               /\ cell' = "done"
               /\ UNCHANGED <<agent_tools, node_index>>
    /\ UNCHANGED <<pass, tools, remote_interfaces, interfaces, existing_tools,
                   to_add, missing, tool_index, outcomes>>
    /\ UNCHANGED <<runVars, agentVars>>

\* The loop over to_add with a try around each add_node, in place of AddNode.
AddNodeContinuing ==
    /\ cell = "add_node"
    /\ node_index <= Len(to_add)
    /\ \E ok \in BOOLEAN :
         setup_calls' = Append(setup_calls,
             [op |-> "add_node", arg |-> to_add[node_index].id_to_use_on_graph, ok |-> ok])
    /\ node_index' = node_index + 1
    /\ cell' = cell
    /\ UNCHANGED <<pass, tools, remote_interfaces, agent_tools, interfaces,
                   existing_tools, to_add, missing, tool_index, outcomes>>
    /\ UNCHANGED <<runVars, agentVars>>

\* for op in to_add: agent.graph.add_node(GraphItem(item_id=op.id_to_use_on_graph, ...))
AddNode ==
    /\ cell = "add_node"
    /\ node_index <= Len(to_add)
    /\ \/ /\ setup_calls' = Append(setup_calls,
                 [op |-> "add_node", arg |-> to_add[node_index].id_to_use_on_graph, ok |-> TRUE])
          /\ node_index' = node_index + 1
          /\ cell' = cell
       \/ /\ setup_calls' = Append(setup_calls,
                 [op |-> "add_node", arg |-> to_add[node_index].id_to_use_on_graph, ok |-> FALSE])
          /\ cell' = "done"
          /\ UNCHANGED node_index
    /\ UNCHANGED <<pass, tools, remote_interfaces, agent_tools, interfaces,
                   existing_tools, to_add, missing, tool_index, outcomes>>
    /\ UNCHANGED <<runVars, agentVars>>

\* agent.sync()
Sync ==
    /\ cell = "add_node"
    /\ node_index > Len(to_add)
    /\ \E ok \in BOOLEAN :
         setup_calls' = Append(setup_calls, [op |-> "sync", arg |-> None, ok |-> ok])
    /\ cell' = "done"
    /\ UNCHANGED <<pass, tools, remote_interfaces, agent_tools, interfaces,
                   existing_tools, to_add, missing, tool_index, node_index,
                   outcomes>>
    /\ UNCHANGED <<runVars, agentVars>>

\* The cells are run once more, against the agent as the last pass left it.
Rerun ==
    /\ cell = "done"
    /\ pass < MaxPasses
    /\ pass' = pass + 1
    /\ outcomes' = Append(outcomes, [to_add |-> to_add, missing |-> missing, calls |-> setup_calls])
    /\ setup_calls' = <<>>
    /\ cell' = "interfaces"
    /\ UNCHANGED <<tools, remote_interfaces, agent_tools, interfaces,
                   existing_tools, to_add, missing, tool_index, node_index>>
    /\ UNCHANGED <<runVars, agentVars>>

(***************************************************************************)
(* The setup notebook on its own: MeetingAgent.run is not called.          *)
(***************************************************************************)
RunIdle ==
    /\ pc = "idle"
    /\ prompt = None
    /\ thread_id = None
    /\ is_finished = FALSE
    /\ messages = <<>>
    /\ execution_tokens = NoResponse.usage
    /\ response = NoResponse
    /\ tool_name = None
    /\ payload = NonePayload
    /\ tool_calls = <<>>
    /\ responses = <<>>
    /\ result = NoResult
    /\ returned = <<>>
    /\ calls = <<>>
    /\ observed = {}
    /\ overflow = FALSE
    /\ first = NoRun
    /\ suspended = NotStarted
    /\ running = 1

ProvisionInit == SetupInit /\ RunIdle

ProvisionNext ==
    \/ RetrieveInterfaces
    \/ GetExistingTools
    \/ BeginProcess
    \/ ProcessTool
    \/ EndProcess
    \/ AttachOperations
    \/ AddNode
    \/ Sync
    \/ Rerun

ProvisionSpec == ProvisionInit /\ [][ProvisionNext]_vars

(***************************************************************************)
(* The cell of the setup notebook that gets or creates the agent, and      *)
(* writes the id of a new agent to the file .env.                          *)
(***************************************************************************)
MaxEnv == 5

\* The text of .env is a sequence of these: the name of the variable, the
\* equals sign, the line break, the comment sign, and any other text.
KEY == "XPANDER_AGENT_ID"
EnvAlphabet == {KEY, "=", "\n", "#", "v"}
EnvTexts == UNION {[1..n -> EnvAlphabet] : n \in 0..MaxEnv}
\* os.environ.get("XPANDER_AGENT_ID"): not set, empty, or the id of an agent.
AgentIds == {None, "", "8b4f94c3"}
\* agent.id of the agent that agents.create returns.
NewId == "c5d2a7e1"

\* env_content.splitlines()
splitlines(text) ==
    LET Pieces[n \in 0..Len(text)] ==
          IF n = 0 THEN << <<>> >>
          ELSE IF text[n] = "\n" THEN Append(Pieces[n - 1], <<>>)
          ELSE [Pieces[n - 1] EXCEPT ![Len(Pieces[n - 1])] = Append(@, text[n])]
        all == Pieces[Len(text)]
    IN  IF all[Len(all)] = <<>> THEN SubSeq(all, 1, Len(all) - 1) ELSE all

\* "\n".join(lines)
join(lines) ==
    LET Upto[n \in 0..Len(lines)] ==
          IF n = 0 THEN <<>>
          ELSE IF n = 1 THEN lines[1]
          ELSE Upto[n - 1] \o <<"\n">> \o lines[n]
    IN  Upto[Len(lines)]

\* "XPANDER_AGENT_ID" in env_content
InText(text) == \E n \in 1..Len(text) : text[n] = KEY
\* line.startswith("XPANDER_AGENT_ID=")
startswith(line) == Len(line) >= 2 /\ line[1] = KEY /\ line[2] = "="

\* What the cell writes to .env.
NewEnv(text, id) ==
    IF InText(text)
    THEN join([n \in 1..Len(splitlines(text)) |->
                 IF startswith(splitlines(text)[n]) THEN <<KEY, "=", id>>
                 ELSE splitlines(text)[n]])
    ELSE text \o <<"\n", KEY, "=", id>>

\* The notebook before the cell is run.
AgentInit ==
    /\ cell = "agent"
    /\ agent_id \in AgentIds
    /\ agent = None
    /\ env_file \in EnvTexts
    /\ env_content = <<>>
    /\ agent_calls = <<>>
    /\ printed = <<>>
    /\ pass = 1
    /\ tools = <<>>
    /\ remote_interfaces = <<>>
    /\ agent_tools = {SENTINEL}
    /\ interfaces = <<>>
    /\ existing_tools = {}
    /\ to_add = <<>>
    /\ missing = <<>>
    /\ tool_index = 1
    /\ node_index = 1
    /\ setup_calls = <<>>
    /\ outcomes = <<>>
    /\ RunIdle

\* What a step of the cell leaves alone.
AgentFrame ==
    UNCHANGED <<pass, tools, remote_interfaces, agent_tools, interfaces,
                existing_tools, to_add, missing, tool_index, node_index,
                setup_calls, outcomes, runVars>>

\* except Exception as e: print(f"Error with agent: {e}")
Caught ==
    /\ printed' = Append(printed, "error")
    /\ cell' = "agent_done"

\* The cell that creates an agent when agents.get raised, in place of
\* GetAgent.
GetAgentOrCreate ==
    /\ cell = "agent"
    /\ Truthy(agent_id)
    /\ \/ /\ agent_calls' = Append(agent_calls, [op |-> "get", arg |-> agent_id, ok |-> TRUE])
          /\ agent' = [id |-> agent_id]
          /\ printed' = Append(printed, "using")
          /\ cell' = "agent_done"
          /\ UNCHANGED agent_id
       \/ /\ agent_calls' = agent_calls \o <<[op |-> "get", arg |-> agent_id, ok |-> FALSE],
                                             [op |-> "create", arg |-> None, ok |-> TRUE]>>
          /\ agent' = [id |-> NewId]
          /\ agent_id' = NewId
          /\ printed' = printed
          /\ cell' = "read_env"
    /\ UNCHANGED <<env_file, env_content>>
    /\ AgentFrame

\* if agent_id: agent = xpander_client.agents.get(agent_id=agent_id)
GetAgent ==
    /\ cell = "agent"
    /\ Truthy(agent_id)
    /\ \/ /\ agent_calls' = Append(agent_calls, [op |-> "get", arg |-> agent_id, ok |-> TRUE])
          /\ agent' = [id |-> agent_id]
          /\ printed' = Append(printed, "using")
          /\ cell' = "agent_done"
       \/ /\ agent_calls' = Append(agent_calls, [op |-> "get", arg |-> agent_id, ok |-> FALSE])
          /\ agent' = agent
          /\ Caught
    /\ UNCHANGED <<agent_id, env_file, env_content>>
    /\ AgentFrame

\* else: agent = xpander_client.agents.create(name=agent_name); agent_id = agent.id
CreateAgent ==
    /\ cell = "agent"
    /\ ~Truthy(agent_id)
    /\ \/ /\ agent_calls' = Append(agent_calls, [op |-> "create", arg |-> None, ok |-> TRUE])
          /\ agent' = [id |-> NewId]
          /\ agent_id' = NewId
          /\ printed' = printed
          /\ cell' = "read_env"
       \/ /\ agent_calls' = Append(agent_calls, [op |-> "create", arg |-> None, ok |-> FALSE])
          /\ UNCHANGED <<agent, agent_id>>
          /\ Caught
    /\ UNCHANGED <<env_file, env_content>>
    /\ AgentFrame

\* with open(".env", "r") as f: env_content = f.read()
ReadEnv ==
    /\ cell = "read_env"
    /\ \/ /\ env_content' = env_file
          /\ printed' = printed
          /\ cell' = "write_env"
       \/ /\ UNCHANGED env_content
          /\ Caught
    /\ UNCHANGED <<agent_id, agent, env_file, agent_calls>>
    /\ AgentFrame

\* with open(".env", "w") as f: f.write(...); print("Created new agent: ...")
WriteEnv ==
    /\ cell = "write_env"
    /\ \/ /\ env_file' = NewEnv(env_content, agent.id)
          /\ printed' = Append(printed, "created")
          /\ cell' = "agent_done"
       \/ /\ UNCHANGED env_file
          /\ Caught
    /\ UNCHANGED <<agent_id, agent, env_content, agent_calls>>
    /\ AgentFrame

AgentNext ==
    \/ GetAgent
    \/ CreateAgent
    \/ ReadEnv
    \/ WriteEnv

AgentSpec == AgentInit /\ [][AgentNext]_vars

(***************************************************************************)
(* The extractor on its own: run is at the extraction step of its first    *)
(* iteration, and the reply is any text of the sets below.                 *)
(***************************************************************************)
Strings(A, n) == UNION {[1..m -> A] : m \in 0..n}

\* What may surround a call: brackets, braces and line breaks.
PadAlphabet == {"[", "]", "{", "}", "\n"}
Pads == Strings(PadAlphabet, MaxPad)

EmptyDictCall == <<"[", "a", "{", "}", "]">>
PairCall == <<"[", "1", "{", "1", ":", "1", "}", "]">>
MultiLineCall == <<"[", "a", "{", "1", ":", "\n", "1", "}", "]">>
Calls == {EmptyDictCall, PairCall, MultiLineCall, MalformedCall}

\* Every short text, every call between two pads, every two calls around a pad.
Texts ==
    Strings(Alphabet, MaxLen)
    \cup {p \o c \o q : p \in Pads, c \in Calls, q \in Pads}
    \cup {c \o p \o d : c \in Calls, p \in Pads, d \in Calls}

ExtractInit ==
    /\ pc = "extract"
    /\ prompt = None
    /\ thread_id = None
    /\ is_finished = FALSE
    /\ \E content \in Texts :
         /\ response = [content |-> content, usage |-> CHOOSE u \in Usages : u.total_tokens = 2]
         /\ messages = <<[role |-> "user", content |-> <<DefaultTask>>],
                         [role |-> "assistant", content |-> <<"the time now is : ", Now>>],
                         [role |-> "assistant", content |-> content]>>
         /\ calls = <<[op |-> "add_task",
                       arg |-> [input |-> DefaultTask, thread_id |-> None],
                       res |-> None],
                      [op |-> "completion",
                       arg |-> <<[role |-> "user", content |-> <<DefaultTask>>],
                                 [role |-> "assistant", content |-> <<"the time now is : ", Now>>]>>,
                       res |-> content]>>
    /\ execution_tokens = response.usage
    /\ tool_name = None
    /\ payload = NonePayload
    /\ tool_calls = <<>>
    /\ responses = <<>>
    /\ result = NoResult
    /\ returned = <<>>
    /\ observed = {}
    /\ overflow = FALSE
    /\ first = NoRun
    /\ suspended = NotStarted
    /\ running = 1
    /\ SetupIdle

ExtractNext == Extract

ExtractSpec == ExtractInit /\ [][ExtractNext]_vars

(***************************************************************************)
(* Properties of the extractor, under ExtractSpec.                         *)
(***************************************************************************)
\* The extraction step has been taken: it returned or it raised.
Extracted == pc \in {"run_tools", "raised"}

\* The bracketed substrings [name{...}] of a text, as pairs <<i, k>>: the
\* opening bracket is at i, the name fills the positions up to the opening
\* brace, the closing brace is at k and the closing bracket at k + 1.
Bracketed(text) ==
    {c \in (1..Len(text)) \X (1..Len(text)) :
        /\ text[c[1]] = "["
        /\ c[2] < Len(text) /\ text[c[2]] = "}" /\ text[c[2] + 1] = "]"
        /\ \E j \in (c[1] + 2)..(c[2] - 1) :
             /\ text[j] = "{"
             /\ \A n \in (c[1] + 1)..(j - 1) : text[n] \in NameChars}

\* The position of the opening brace of a bracketed substring.
BraceOf(text, c) == CHOOSE j \in (c[1] + 2)..(c[2] - 1) :
                       text[j] = "{" /\ \A n \in (c[1] + 1)..(j - 1) : text[n] \in NameChars
NameOf(text, c) == Join(SubSeq(text, c[1] + 1, BraceOf(text, c) - 1))
MappingOf(text, c) == SubSeq(text, BraceOf(text, c), c[2])

\* The well-formed calls of a text: its bracketed substrings whose mapping is
\* a literal.
WellFormedCalls(text) == {c \in Bracketed(text) : literal_eval(MappingOf(text, c)).ok}

\* The extractor returned the call c of the reply.
ReturnedCall(c) ==
    /\ pc = "run_tools"
    /\ tool_name = NameOf(response.content, c)
    /\ payload = literal_eval(MappingOf(response.content, c)).value

\* The extractor returned (None, None).
ReturnedNone == pc = "run_tools" /\ tool_name = None /\ payload = NonePayload

\* C3: a reply that contains exactly one well-formed [name{mapping}]
\* substring yields that name and the parsed value of that mapping, whatever
\* surrounds the substring and wherever the reply has line breaks.
C3_SingleCallExtracted ==
    (Extracted /\ Cardinality(WellFormedCalls(response.content)) = 1)
        => \A c \in WellFormedCalls(response.content) : ReturnedCall(c)

\* C4: a reply that contains two well-formed calls yields the leftmost one,
\* whether the two are on one line or on two.
C4_FirstOfTwoCalls ==
    (Extracted /\ Cardinality(WellFormedCalls(response.content)) = 2)
        => \E c \in WellFormedCalls(response.content) :
             /\ \A d \in WellFormedCalls(response.content) : c[1] <= d[1]
             /\ ReturnedCall(c)

\* C5: a reply that contains no bracketed [name{...}] substring yields
\* (None, None), and the extractor raises nothing.
C5_NoCallYieldsNone ==
    (Extracted /\ Bracketed(response.content) = {}) => ReturnedNone

\* C5 witness: the reply "[{}]", a bracketed mapping without a name, yielded
\* (None, None).
C5_Witness ==
    ReturnedNone /\ response.content = <<"[", "{", "}", "]">>

\* C6: a reply whose bracketed call matches the pattern and whose mapping is
\* no literal makes the extractor raise: the outcome is neither (None, None)
\* nor any other returned pair.
C6_MalformedRaises ==
    (/\ Extracted
     /\ re_search(response.content).found
     /\ ~literal_eval(re_search(response.content).g2).ok)
        => (pc = "raised" /\ ~ReturnedNone /\ tool_calls = <<>>)

\* C6 witness: the reply "[a{a a}]" made the extractor raise.
C6_Witness ==
    pc = "raised" /\ response.content = MalformedCall

(***************************************************************************)
(* Properties of MeetingAgent.run, under Spec and FairSpec.                *)
(***************************************************************************)
\* An executed response carried the sentinel name.
SentinelObserved == SENTINEL \in observed
\* The positions of run after its loop.
AfterLoop == {"retrieve", "report", "return", "returned"}

\* The completion and run_tools calls of the run, in order.
IsLoopCall(e) == e.op \in {"completion", "run_tools"}
LoopCalls == SelectSeq(calls, IsLoopCall)
\* The n-th loop call is a tool execution that returned the sentinel name.
SentinelAt(n) ==
    /\ LoopCalls[n].op = "run_tools"
    /\ \E m \in 1..Len(LoopCalls[n].res) : LoopCalls[n].res[m] = SENTINEL

\* C1: is_finished becomes TRUE only in the run_tools step of an iteration
\* whose responses carry the sentinel name; whenever is_finished is TRUE, and
\* whenever run is past its loop, such a response has been observed.
C1_FinishedOnlySentinel ==
    /\ [](is_finished => SentinelObserved)
    /\ [](pc \in AfterLoop => is_finished)
    /\ [][(~is_finished /\ is_finished') =>
            (/\ pc = "run_tools"
             /\ \E n \in 1..Len(responses') : responses'[n].function_name = SENTINEL)]_vars

\* C1 witness: the loop is finished by a response that carries the sentinel.
C1_Witness ==
    pc = "break" /\ is_finished /\ responses[1].function_name = SENTINEL

\* The run was ended by an exception of get_function_and_payload, or by one
\* of a remote call.
ExtractorRaised == pc = "raised" /\ get_function_and_payload(response.content).raised
RemoteCallRaised == pc = "raised" /\ ~get_function_and_payload(response.content).raised

\* C2 as stated: run returns only after a sentinel response; as long as no
\* response carries the sentinel and no remote call raises, the loop issues
\* completion and tool-execution calls again and again; once a response
\* carries the sentinel, a run whose remote calls do not raise returns.
C2_AsStated ==
    /\ [](pc = "returned" => SentinelObserved)
    /\ (([](~RemoteCallRaised) /\ [](~SentinelObserved))
           => ([]<>(pc = "completion") /\ []<>(pc = "run_tools")))
    /\ ([](~RemoteCallRaised) => (SentinelObserved ~> (pc = "returned")))

\* C2: run returns only after a sentinel response; as long as no response
\* carries the sentinel and neither a remote call nor the extractor raises,
\* the loop issues completion and tool-execution calls again and again; once
\* a response carries the sentinel and no call raises, run returns.
C2_LoopsUntilSentinel ==
    /\ [](pc = "returned" => SentinelObserved)
    /\ (([](pc # "raised") /\ [](~SentinelObserved))
           => ([]<>(pc = "completion") /\ []<>(pc = "run_tools")))
    /\ ([](pc # "raised") => (SentinelObserved ~> (pc = "returned")))

\* C2 witness: past MaxIter iterations without a sentinel, the loop is about
\* to issue one more completion call.
C2_Witness ==
    overflow /\ ~SentinelObserved /\ pc = "completion"

\* C7: the tool_calls list, and the list passed to run_tools, never holds
\* more than one element.
C7_AtMostOneToolCall ==
    /\ Len(tool_calls) <= 1
    /\ \A n \in 1..Len(calls) : calls[n].op = "run_tools" => Len(calls[n].arg) <= 1

\* C7 witness: a reply with two well-formed calls gave one tool call.
C7_Witness ==
    /\ pc = "run_tools"
    /\ Cardinality(WellFormedCalls(response.content)) = 2
    /\ Len(tool_calls) = 1

\* C8: a ToolCall is constructed and passed to run_tools only if the
\* extractor returned a tool name.
C8_ExecutedOnlyIfNamed ==
    /\ (pc = "run_tools" /\ tool_name = None) => tool_calls = <<>>
    /\ \A n \in 1..Len(calls) :
         calls[n].op = "run_tools" =>
            \A m \in 1..Len(calls[n].arg) : calls[n].arg[m][1] # None

\* C9: completion and tool-execution calls alternate, starting with a
\* completion; tool execution k carries the call extracted from reply k; a
\* run that is past its loop after n completions made n tool executions, the
\* n-th being the first whose response carried the sentinel.
C9_Alternation ==
    ~overflow =>
      /\ \A n \in 1..Len(LoopCalls) :
           LoopCalls[n].op = IF n % 2 = 1 THEN "completion" ELSE "run_tools"
      /\ \A n \in 1..Len(LoopCalls) :
           n % 2 = 0 =>
             LET r == get_function_and_payload(LoopCalls[n - 1].res)
             IN  ~r.raised /\ LoopCalls[n].arg = <<<<r.tool_name, r.payload>>>>
      /\ pc \in AfterLoop =>
           /\ Count("completion") = Count("run_tools")
           /\ Count("completion") >= 1
           /\ SentinelAt(Len(LoopCalls))
           /\ \A n \in 1..(Len(LoopCalls) - 1) : ~SentinelAt(n)

\* C9 witness: a calendar call and then the sentinel: run returned after two
\* completion calls and two tool executions.
C9_Witness ==
    /\ pc = "returned" /\ ~overflow
    /\ Count("completion") = 2 /\ Count("run_tools") = 2
    /\ LoopCalls[1].res = CalendarCall /\ LoopCalls[2].res = <<CALENDAR>>
    /\ LoopCalls[3].res = FinishCall /\ LoopCalls[4].res = <<SENTINEL>>

\* C10: once a response carried the sentinel no completion or run_tools call
\* is issued; retrieve_execution_result is called at most once, only when
\* is_finished, exactly once before run returns; run returns the result text
\* and the memory_thread_id of the retrieved result.
C10_RetrieveOnceAndReturn ==
    /\ SentinelObserved => pc \in {"break", "raised"} \cup AfterLoop
    /\ ~overflow => \A n \in 1..(Len(LoopCalls) - 1) : ~SentinelAt(n)
    /\ Count("retrieve_execution_result") <= 1
    /\ (pc = "retrieve" \/ Count("retrieve_execution_result") = 1) => is_finished
    /\ pc \in {"report", "return", "returned"} =>
         /\ Count("retrieve_execution_result") = 1
         /\ \E n \in 1..Len(calls) :
              calls[n].op = "retrieve_execution_result" /\ calls[n].res = result
    /\ pc = "returned" => returned = <<result.result, result.memory_thread_id>>

\* C10 witness: a run started without a thread returned the retrieved pair.
C10_Witness ==
    /\ pc = "returned"
    /\ calls[1].arg.thread_id = None
    /\ returned = <<"ok", "b1047931">>

\* The add_task request of the run, once it is made.
AddTaskRequest == calls[1].arg
\* The step of run that calls add_task.
AddTaskStep == pc = "start" /\ pc' = "add_messages"

SentinelInResponses ==
    \E n \in 1..Len(responses) : responses[n].function_name = SENTINEL

\* C12: a response with the sentinel name sets is_finished in the tool
\* execution step that returned it, and the test that follows leaves the loop,
\* whatever the response's is_success flag and HTTP status.
C12_SentinelEndsLoop ==
    /\ [](pc = "break" /\ SentinelInResponses => is_finished)
    /\ [][(pc = "break" /\ SentinelInResponses) => pc' = "retrieve"]_vars
    /\ [][(pc = "run_tools" /\ pc' = "break")
            => (is_finished' = \E n \in 1..Len(responses') :
                                  responses'[n].function_name = SENTINEL)]_vars

\* C12 witness: a failed sentinel response (status 500, is_success FALSE)
\* ended the loop.
C12_Witness ==
    /\ pc = "retrieve"
    /\ responses[1].function_name = SENTINEL
    /\ responses[1].status_code = 500
    /\ ~responses[1].is_success

\* C13: a chat completion or a tool execution either returns or raises; when
\* it raises the step makes no call and changes nothing, no step of run
\* follows the exception, and a run ended while RUNNING has called neither
\* retrieve_execution_result nor report_execution_metrics and returned nothing.
C13_ExceptionPropagates ==
    /\ [][pc = "completion" => (pc' = "raised" \/ pc' = "extract")]_vars
    /\ [][pc = "run_tools" =>
            (pc' = "raised" \/ (pc' = "break" /\ responses' \in RunToolsResults(tool_calls)))]_vars
    /\ [][(pc \in {"completion", "run_tools"} /\ pc' = "raised")
            => (calls' = calls /\ messages' = messages /\ returned' = <<>>)]_vars
    /\ [][pc # "raised"]_vars
    /\ [](pc = "raised" /\ ~is_finished =>
            /\ Count("retrieve_execution_result") = 0
            /\ Count("report_execution_metrics") = 0
            /\ returned = <<>>)

\* C13 witness: after a calendar call was executed, the second chat
\* completion raised.
C13_Witness ==
    /\ pc = "raised"
    /\ Len(calls) = 3 /\ calls[3].op = "run_tools"
    /\ response.content = CalendarCall
    /\ ~is_finished

\* The cells that process the manifest and attach the operations have the
\* existing_tools, to_add and missing of the current pass.
Processing == cell \in {"for", "add_tools", "add_node", "done"}
\* The calls of a log that attach something to the agent.
AttachCalls(log) ==
    {n \in 1..Len(log) : log[n].op \in {"attach_operations", "add_node", "sync"}}
\* The pass before the current one left nothing missing and attached what
\* it had to add.
PreviousPassSucceeded ==
    /\ outcomes # <<>>
    /\ LET last == outcomes[Len(outcomes)] IN
         /\ last.missing = <<>>
         /\ \/ last.to_add = <<>>
            \/ \E n \in 1..Len(last.calls) : last.calls[n].op = "sync" /\ last.calls[n].ok

\* C14: no operation whose id is among the existing tool names of the pass is
\* in to_add or in an attach_operations call; a pass that follows a pass which
\* left nothing missing and attached what it had to add has an empty to_add
\* and makes no attach_operations, add_node or sync call.
C14_ProvisioningIdempotent ==
    Processing =>
      /\ \A n \in 1..Len(to_add) : to_add[n].id_to_use_on_graph \notin existing_tools
      /\ \A n \in 1..Len(setup_calls) :
           setup_calls[n].op = "attach_operations" =>
             \A m \in 1..Len(setup_calls[n].arg) :
               setup_calls[n].arg[m].id_to_use_on_graph \notin existing_tools
      /\ PreviousPassSucceeded => (to_add = <<>> /\ AttachCalls(setup_calls) = {})

\* C14 witness: the first pass attached operations, the second pass is done
\* and found nothing to add.
C14_Witness ==
    /\ cell = "done" /\ pass = 2
    /\ PreviousPassSucceeded
    /\ outcomes[1].to_add # <<>>
    /\ Len(tools) = 2
    /\ to_add = <<>>

\* The manifest entries with a non-empty internal_name that is not among the
\* existing tools.
Eligible(n) ==
    Truthy(tools[n].internal_name) /\ tools[n].internal_name \notin existing_tools
\* How many of the first k manifest entries are eligible and named x, and how
\* often x is recorded in to_add and in missing.
Expected(x, k) ==
    Cardinality({n \in 1..k : Eligible(n) /\ tools[n].internal_name = x})
InToAdd(x) == Cardinality({n \in 1..Len(to_add) : to_add[n].id_to_use_on_graph = x})
InMissing(x) == Cardinality({n \in 1..Len(missing) : missing[n] = x})
InternalNames == {tools[n].internal_name : n \in 1..Len(tools)} \cup {"", None}

\* C15: while the manifest is processed every entry handled so far that is
\* eligible is recorded once, in to_add (as an operation with its id) or in
\* missing, and nothing else is recorded; the loop ends only when every entry
\* was handled, whatever lookups failed or raised.
C15_BestEffort ==
    Processing =>
      /\ tool_index \in 1..(Len(tools) + 1)
      /\ cell # "for" => tool_index = Len(tools) + 1
      /\ \A x \in InternalNames : InToAdd(x) + InMissing(x) = Expected(x, tool_index - 1)
      /\ Len(to_add) + Len(missing) =
           Cardinality({n \in 1..(tool_index - 1) : Eligible(n)})

\* C15 witness: the lookup for the first of two entries raised and the entry
\* is missing; the second entry was processed and is in to_add.
C15_Witness ==
    /\ cell = "add_tools"
    /\ Len(tools) = 2
    /\ Len(setup_calls) = 4
    /\ ~setup_calls[3].ok /\ setup_calls[4].ok
    /\ missing = <<tools[1].internal_name>>
    /\ Len(to_add) = 1 /\ to_add[1].id_to_use_on_graph = tools[2].internal_name

\* C16: after every extraction that returned, tool_calls is the one-element
\* list made of the extracted name and payload, (None, None) when the reply
\* has no call; the tool execution step that follows passes that list to
\* run_tools.
C16_NoneCallExecuted ==
    /\ [](pc = "run_tools" =>
            /\ Len(tool_calls) = 1
            /\ tool_calls[1].name = tool_name /\ tool_calls[1].payload = payload
            /\ ~re_search(response.content).found =>
                 (tool_name = None /\ payload = NonePayload))
    /\ [][(pc = "run_tools" /\ pc' = "break" /\ ~overflow) =>
            /\ Len(calls') = Len(calls) + 1
            /\ calls'[Len(calls')].op = "run_tools"
            /\ calls'[Len(calls')].arg = <<<<tool_name, payload>>>>]_vars

\* C16 witness: a reply of prose was followed by a run_tools call with a
\* ToolCall named None.
C16_Witness ==
    /\ pc = "break" /\ ~is_finished
    /\ response.content = Prose
    /\ calls[Len(calls)].op = "run_tools"
    /\ calls[Len(calls)].arg = <<<<None, NonePayload>>>>

\* C17: after a tool execution is_finished is TRUE exactly if a response of
\* that execution carries the sentinel name, whatever tool name was extracted
\* from the reply: not when only the reply names the sentinel, and also when
\* the reply names another tool or none.
C17_SentinelFromResponseOnly ==
    pc = "break" =>
      /\ is_finished <=> SentinelInResponses
      /\ (tool_name = SENTINEL /\ ~SentinelInResponses) => ~is_finished
      /\ (tool_name # SENTINEL /\ SentinelInResponses) => is_finished

\* C17 witness: the reply named the sentinel and the response another tool,
\* and the loop went on; then a reply of prose got a sentinel response and
\* the loop ended.
C17_Witness ==
    /\ pc = "retrieve" /\ Len(calls) = 5
    /\ calls[2].res = FinishCall /\ calls[3].res = <<CALENDAR>>
    /\ calls[4].res = Prose /\ calls[5].res = <<SENTINEL>>

\* The completion calls of the log.
CompletionCalls == {n \in 1..Len(calls) : calls[n].op = "completion"}
\* s is an initial part of t.
IsPrefix(s, t) == Len(s) <= Len(t) /\ SubSeq(t, 1, Len(s)) = s

\* C18: every step of run leaves the message history as it is or appends one
\* message to it; a completion step appends the assistant's reply, which is
\* the last message when the extractor runs; after n completion calls the
\* history holds the task, the timestamp and n replies; every completion call
\* was sent the whole history of its time, which is still an initial part of
\* the history.  (Checked for the iterations that are recorded.)
C18_HistoryAppendOnly ==
    /\ [][overflow' \/ messages' = messages
            \/ (Len(messages') = Len(messages) + 1 /\ IsPrefix(messages, messages'))]_vars
    /\ [][(pc = "completion" /\ pc' = "extract" /\ ~overflow) =>
            messages' = Append(messages, [role |-> "assistant", content |-> response'.content])]_vars
    /\ [][messages' # messages => pc \in {"start", "add_messages", "completion"}]_vars
    /\ [](~overflow =>
            /\ pc = "extract" => messages[Len(messages)].content = response.content
            /\ CompletionCalls # {} => Len(messages) = 2 + Cardinality(CompletionCalls)
            /\ \A n \in CompletionCalls :
                 /\ IsPrefix(calls[n].arg, messages)
                 /\ Len(calls[n].arg) = 2 + Cardinality({m \in CompletionCalls : m < n}))

\* C18 witness: the second reply was appended and is about to be parsed; the
\* second completion call was sent the task, the timestamp and the first reply.
C18_Witness ==
    /\ pc = "extract" /\ ~overflow
    /\ Cardinality(CompletionCalls) = 2
    /\ Len(messages) = 4
    /\ calls[4].op = "completion" /\ calls[4].arg = SubSeq(messages, 1, 3)
    /\ messages[3].content = CalendarCall /\ messages[4].content = FinishCall

\* The timestamp message, and the positions of the history that hold it.
TimestampMessage == [role |-> "assistant", content |-> <<"the time now is : ", Now>>]
Timestamps == {n \in 1..Len(messages) : messages[n] = TimestampMessage}

\* C19: the add_task step sends the prompt, or the default task when the
\* prompt is None or empty, and the thread id, or None when none is given;
\* add_task is the first call of the log and is not called again; the first
\* completion call is the second call and is sent the task and then the
\* timestamp; the history never holds a second timestamp message.
C19_TaskThenTimestamp ==
    /\ [][AddTaskStep =>
            /\ AddTaskRequest'.input = (IF prompt = None \/ prompt = "" THEN DefaultTask ELSE prompt)
            /\ AddTaskRequest'.thread_id = (IF thread_id = None \/ thread_id = "" THEN None ELSE thread_id)
            /\ messages' = <<[role |-> "user", content |-> <<AddTaskRequest'.input>>]>>]_vars
    /\ [](/\ \A n \in 1..Len(calls) : calls[n].op = "add_task" <=> n = 1
          /\ Cardinality(Timestamps) <= 1
          /\ Timestamps # {} => Timestamps = {2}
          /\ CompletionCalls # {} =>
               /\ calls[2].op = "completion"
               /\ calls[2].arg = <<[role |-> "user", content |-> <<AddTaskRequest.input>>],
                                   TimestampMessage>>)

\* C19 witness: a run without a prompt, two iterations on, was given the
\* default task once and one timestamp.
C19_Witness ==
    /\ pc = "break" /\ ~overflow
    /\ prompt = None
    /\ AddTaskRequest = [input |-> DefaultTask, thread_id |-> None]
    /\ Cardinality(CompletionCalls) = 2
    /\ Timestamps = {2}

\* The remote calls of a run without the token totals they carry.
WithoutTokens(log) ==
    [n \in 1..Len(log) |->
        IF log[n].op = "report_execution_metrics"
        THEN [op |-> log[n].op, arg |-> None, res |-> None]
        ELSE log[n]]
\* The totals that report_execution_metrics was sent.
Reported == {calls[n].arg : n \in {m \in 1..Len(calls) : calls[m].op = "report_execution_metrics"}}
ReportedBefore == {first.calls[n].arg :
                     n \in {m \in 1..Len(first.calls) : first.calls[m].op = "report_execution_metrics"}}
Plus(t, u) == [completion_tokens |-> t.completion_tokens + u.completion_tokens,
               prompt_tokens |-> t.prompt_tokens + u.prompt_tokens,
               total_tokens |-> t.total_tokens + u.total_tokens]

\* C20: a second run that is given the answers of the first, with any usage
\* numbers, makes the remote calls of the first in the same order, and ends as
\* the first did, after as many calls and with the same result; the totals
\* are zero before the first completion call, grow by the usage of each
\* completion call and by nothing else, and are what report_execution_metrics
\* is sent.  (Checked for the iterations that are recorded.)
C20_TokensDoNotSteer ==
    /\ [](first # NoRun =>
            /\ ~overflow
            /\ IsPrefix(WithoutTokens(calls), WithoutTokens(first.calls))
            /\ pc \in {"returned", "raised"} =>
                 /\ pc = first.pc
                 /\ Len(calls) = Len(first.calls)
                 /\ returned = first.returned)
    /\ [](CompletionCalls = {} => execution_tokens = NoResponse.usage)
    /\ [][(pc = "completion" /\ pc' = "extract" /\ ~overflow)
             => execution_tokens' = Plus(execution_tokens, response'.usage)]_vars
    /\ [][(pc # "completion" /\ pc' # "start") => execution_tokens' = execution_tokens]_vars
    /\ [][(pc = "report" /\ pc' = "return") => Reported' = {execution_tokens}]_vars

\* C20 witness: two runs of two iterations were given the same answers and
\* different usage numbers, and both returned.
C20_Witness ==
    /\ first # NoRun
    /\ pc = "returned" /\ first.pc = "returned"
    /\ Cardinality(CompletionCalls) = 2
    /\ WithoutTokens(calls) = WithoutTokens(first.calls)
    /\ Reported # ReportedBefore

\* The manifest entry of the current turn of the loop, and the step that looks
\* up its interface: the entry has a name that is not among the existing tools.
Entry == tools[tool_index]
LookupStep ==
    /\ cell = "for" /\ tool_index <= Len(tools) /\ tool_index' = tool_index + 1
    /\ Truthy(Entry.internal_name)
    /\ Entry.internal_name \notin existing_tools
\* The positions, in retrieval order, of the interfaces whose lower-cased name
\* contains the lower-cased string of the entry.
Containing ==
    {n \in 1..Len(remote_interfaces) :
        Contains(Lower(Entry.interface), Lower(remote_interfaces[n].name))}
FirstContaining == CHOOSE n \in Containing : \A m \in Containing : n <= m
\* The last retrieved interface with the lower-cased name of the n-th.
LastNamedAs(n) ==
    remote_interfaces[CHOOSE m \in 1..Len(remote_interfaces) :
        /\ Lower(remote_interfaces[m].name) = Lower(remote_interfaces[n].name)
        /\ \A k \in (m + 1)..Len(remote_interfaces) :
              Lower(remote_interfaces[k].name) # Lower(remote_interfaces[n].name)]
\* The step asked for the operations of interface i; the step asked for none
\* and recorded the entry as missing.
AskedFor(i) ==
    /\ Len(setup_calls') = Len(setup_calls) + 1
    /\ setup_calls'[Len(setup_calls')].op = "retrieve_agentic_operations"
    /\ setup_calls'[Len(setup_calls')].arg = i.id
MissingInterface ==
    /\ setup_calls' = setup_calls
    /\ missing' = Append(missing, Entry.internal_name)
    /\ to_add' = to_add

\* C23 as stated: the lookup takes the first interface in retrieval order
\* whose lower-cased name contains the lower-cased string of the entry, and
\* records the entry as missing when there is none.
C23_AsStated ==
    [][LookupStep =>
         IF Containing = {} THEN MissingInterface
         ELSE AskedFor(remote_interfaces[FirstContaining])]_vars

\* C23: the lookup takes the last retrieved interface that has the lower-cased
\* name of the first interface in retrieval order whose lower-cased name
\* contains the lower-cased string of the entry, and records the entry as
\* missing for lack of an interface exactly when no name contains the string.
C23_InterfaceLookup ==
    [][LookupStep =>
         IF Containing = {} THEN MissingInterface
         ELSE AskedFor(LastNamedAs(FirstContaining)) /\ ~MissingInterface]_vars

\* C23 witness: the lookup of an entry passed over the first interface whose
\* name contains the string and asked for the operations of a later one of
\* the same lower-cased name.
C23_Witness ==
    /\ cell = "for" /\ tool_index = 2
    /\ tools[1].interface = <<"G">>
    /\ remote_interfaces = <<Interface1, Interface2, Interface3>>
    /\ setup_calls # <<>>
    /\ setup_calls[Len(setup_calls)].op = "retrieve_agentic_operations"
    /\ setup_calls[Len(setup_calls)].arg = Interface3.id

\* The cells after the loop over the manifest.
AfterProcess == {"add_tools", "add_node", "done"}

\* C24: after the loop over the manifest no two operations of to_add have the
\* same id_to_use_on_graph, and attach_operations is never sent two operations
\* of the same id.
C24_NoToolTwice ==
    /\ cell \in AfterProcess =>
          \A n, m \in 1..Len(to_add) :
             to_add[n].id_to_use_on_graph = to_add[m].id_to_use_on_graph => n = m
    /\ \A k \in {j \in 1..Len(setup_calls) : setup_calls[j].op = "attach_operations"} :
          \A n, m \in 1..Len(setup_calls[k].arg) :
             setup_calls[k].arg[n].id_to_use_on_graph = setup_calls[k].arg[m].id_to_use_on_graph
                => n = m

\* The calls of the attach step in the current pass, in order.
IsAttachCall(e) == e.op \in {"attach_operations", "add_node", "sync"}
AttachStep == SelectSeq(setup_calls, IsAttachCall)

\* C25: the attach step begins with attach_operations for to_add; an add_node
\* call follows successful calls only and is for the next operation of to_add;
\* sync is called after attach_operations and one add_node for every operation
\* of to_add, all successful, and is the last call; a call that raised is the
\* last call of the step, which is then over; with an empty to_add the step
\* makes no call.
C25_SyncAfterAll ==
    /\ AttachStep # <<>> =>
          /\ cell \in AfterProcess /\ to_add # <<>>
          /\ AttachStep[1].op = "attach_operations" /\ AttachStep[1].arg = to_add
    /\ \A n \in 2..Len(AttachStep) :
          /\ AttachStep[n].op # "attach_operations"
          /\ AttachStep[n - 1].ok
          /\ AttachStep[n].op = "add_node" =>
                /\ n - 1 <= Len(to_add)
                /\ AttachStep[n].arg = to_add[n - 1].id_to_use_on_graph
          /\ AttachStep[n].op = "sync" => n = Len(to_add) + 2
    /\ \A n \in 1..Len(AttachStep) :
          (~AttachStep[n].ok \/ AttachStep[n].op = "sync") => (n = Len(AttachStep) /\ cell = "done")
    /\ (cell = "done" /\ to_add # <<>>) =>
          (~AttachStep[Len(AttachStep)].ok \/ AttachStep[Len(AttachStep)].op = "sync")

\* C25 witness: the second add_node of two raised, and the cell ended without
\* a call of sync.
C25_Witness ==
    /\ cell = "done"
    /\ Len(to_add) = 2
    /\ Len(AttachStep) = 3
    /\ AttachStep[2].ok /\ ~AttachStep[3].ok
    /\ AttachStep[3].op = "add_node"

\* The reply of the current iteration holds a bracketed call whose mapping is
\* not a literal.
MalformedReply ==
    /\ re_search(response.content).found
    /\ ~literal_eval(re_search(response.content).g2).ok

CallsOf(op) == {n \in 1..Len(calls) : calls[n].op = op}

\* C27: a run, the first or one that follows a run that returned or raised,
\* begins with is_finished FALSE and reaches its first loop test with
\* is_finished FALSE; a run that is past its loop has made a completion call
\* and after it a tool execution, both before every retrieval of the result.
C27_StartsUnfinished ==
    /\ [][pc' = "start" => ~is_finished']_vars
    /\ []((pc \in {"start", "add_messages"} \/ (pc = "while" /\ CallsOf("completion") = {}))
            => ~is_finished)
    /\ [](pc \in AfterLoop =>
            \E c \in CallsOf("completion"), t \in CallsOf("run_tools") :
               /\ c < t
               /\ \A r \in CallsOf("retrieve_execution_result") : t < r)

\* C27 witness: a run that followed a run that had returned, finished, began
\* unfinished and returned after a completion call and a tool execution.
C27_Witness ==
    /\ first.pc = "returned"
    /\ pc = "returned"
    /\ CallsOf("completion") # {} /\ CallsOf("run_tools") # {}
    /\ CallsOf("retrieve_execution_result") # {}

(***************************************************************************)
(* Properties of the cell that gets or creates the agent, under AgentSpec. *)
(***************************************************************************)
\* The calls of agents.get and of agents.create so far.
Gets == {n \in 1..Len(agent_calls) : agent_calls[n].op = "get"}
Creates == {n \in 1..Len(agent_calls) : agent_calls[n].op = "create"}

\* C22: with an agent id in the environment the cell calls agents.get for
\* that id and is over, without a call of agents.create and with .env as it
\* was; without one it calls agents.create; the cell makes one call in all;
\* a call that raised leaves the cell over, with the error printed, no agent
\* and .env as it was.
C22_GetOrCreate ==
    /\ [][(cell = "agent" /\ Truthy(agent_id)) =>
            /\ Len(agent_calls') = 1
            /\ agent_calls'[1].op = "get" /\ agent_calls'[1].arg = agent_id
            /\ cell' = "agent_done"]_vars
    /\ [][(cell = "agent" /\ ~Truthy(agent_id)) =>
            /\ Len(agent_calls') = 1
            /\ agent_calls'[1].op = "create"]_vars
    /\ [][Gets # {} => (env_file' = env_file /\ Creates' = {})]_vars
    /\ [][agent_calls # <<>> => agent_calls' = agent_calls]_vars
    /\ [](cell = "agent" <=> agent_calls = <<>>)
    /\ []((agent_calls # <<>> /\ ~agent_calls[1].ok) =>
            /\ cell = "agent_done"
            /\ printed = <<"error">>
            /\ agent = None)
    /\ [][(agent_calls' # <<>> /\ ~agent_calls'[1].ok) => env_file' = env_file]_vars

\* C22 witness: agents.get raised for the configured id, and the cell ended
\* with the error printed.
C22_Witness ==
    /\ cell = "agent_done"
    /\ agent_calls = <<[op |-> "get", arg |-> "8b4f94c3", ok |-> FALSE]>>
    /\ printed = <<"error">>
    /\ env_file # <<>>

\* The lines of a text that are not empty and not of the form
\* XPANDER_AGENT_ID=..., in order; the positions of the lines of that form,
\* and of those that give the id.
IsOtherLine(line) == line # <<>> /\ ~startswith(line)
OtherLines(text) == SelectSeq(splitlines(text), IsOtherLine)
KeyLines(text) == {n \in 1..Len(splitlines(text)) : startswith(splitlines(text)[n])}
IdLines(text, id) ==
    {n \in 1..Len(splitlines(text)) : splitlines(text)[n] = <<KEY, "=", id>>}
\* The cell created an agent and wrote .env.
Rewritten == cell = "agent_done" /\ Creates # {} /\ printed = <<"created">>

\* C28: after the cell created an agent and wrote .env, exactly one line of
\* the file is XPANDER_AGENT_ID=<id of the new agent>, no other line begins
\* with XPANDER_AGENT_ID=, and the other lines are those of the file that was
\* read, in the same order (empty lines apart).
C28_EnvRewritten ==
    Rewritten =>
       /\ Cardinality(IdLines(env_file, agent.id)) = 1
       /\ KeyLines(env_file) = IdLines(env_file, agent.id)
       /\ OtherLines(env_file) = OtherLines(env_content)

(***************************************************************************)
(* Properties of two interleaved runs, under InterleavedSpec.              *)
(***************************************************************************)
\* The completion calls of a run r, the replies they returned before the
\* n-th call of r, and what r is expected to send in a completion call then.
CompletionsOf(r) == {n \in 1..Len(r.calls) : r.calls[n].op = "completion"}
RepliesBefore(r, n) ==
    LET Upto[k \in 0..Len(r.calls)] ==
          IF k = 0 THEN <<>>
          ELSE IF r.calls[k].op = "completion"
               THEN Append(Upto[k - 1], [role |-> "assistant", content |-> r.calls[k].res])
               ELSE Upto[k - 1]
    IN  Upto[n - 1]
TaskOf(r) == IF Truthy(r.prompt) THEN r.prompt ELSE DefaultTask
OwnHistory(r, n) ==
    <<[role |-> "user", content |-> <<TaskOf(r)>>], TimestampMessage>> \o RepliesBefore(r, n)
\* A run sent its own history in every completion call, is finished only
\* after a tool execution of its own that returned the sentinel, and holds
\* the result that its own retrieval returned.
OnItsOwn(r) ==
    /\ \A n \in CompletionsOf(r) : r.calls[n].arg = OwnHistory(r, n)
    /\ r.is_finished =>
          \E n \in 1..Len(r.calls) :
             /\ r.calls[n].op = "run_tools"
             /\ \E k \in 1..Len(r.calls[n].res) : r.calls[n].res[k] = SENTINEL
    /\ r.result # NoResult =>
          \E n \in 1..Len(r.calls) :
             /\ r.calls[n].op = "retrieve_execution_result"
             /\ r.calls[n].res = r.result

=============================================================================
